---- MODULE Spec2Model ----
(***************************************************************************)
(* A model of one run of `mop` (firecloud/fiss.py), the command that       *)
(* removes unreferenced files from a workspace's bucket.                   *)
(*                                                                         *)
(* Python strings are sequences of one-character strings, so that split,   *)
(* endswith, startswith, fnmatchcase and string concatenation are computed *)
(* on characters, as the code computes them.  Python's None and the empty  *)
(* list are both falsy; an absent --include / --exclude is the empty       *)
(* sequence.                                                               *)
(***************************************************************************)
EXTENDS Integers, Sequences, FiniteSets, TLC

\* ------------------------------------------------------------------------
\* Bounds of the model
\* ------------------------------------------------------------------------

\* Largest number of blobs one bucket listing returns.
MaxBlobs == 2

\* Largest filteredPageCount an entity query reports.
MaxPages == 2

\* Largest number of entity types of the workspace.
MaxTypes == 1

\* ------------------------------------------------------------------------
\* Strings
\* ------------------------------------------------------------------------

Range(s) == {s[i] : i \in 1..Len(s)}

\* str.startswith
StartsWith(s, pre) ==
    /\ Len(pre) <= Len(s)
    /\ SubSeq(s, 1, Len(pre)) = pre

\* str.endswith
EndsWith(s, suf) ==
    /\ Len(suf) <= Len(s)
    /\ SubSeq(s, Len(s) - Len(suf) + 1, Len(s)) = suf

\* Index of the first occurrence of the character c in s, 0 when absent.
RECURSIVE Find(_, _, _)
Find(s, c, i) ==
    IF i > Len(s) THEN 0
    ELSE IF s[i] = c THEN i
    ELSE Find(s, c, i + 1)

\* str.split(sep, maxsplit): at most maxsplit splits, from the left.
RECURSIVE Split(_, _, _)
Split(s, sep, maxsplit) ==
    LET i == Find(s, sep, 1)
    IN  IF maxsplit = 0 \/ i = 0 THEN <<s>>
        ELSE <<SubSeq(s, 1, i - 1)>>
             \o Split(SubSeq(s, i + 1, Len(s)), sep, maxsplit - 1)

\* str.split(sep)[-1] and str.rsplit(sep, 1)[-1]: what follows the last sep.
RECURSIVE LastSegment(_, _)
LastSegment(s, sep) ==
    LET i == Find(s, sep, 1)
    IN  IF i = 0 THEN s ELSE LastSegment(SubSeq(s, i + 1, Len(s)), sep)

\* str(n) of a non-negative integer.
Digit(d) == <<"0", "1", "2", "3", "4", "5", "6", "7", "8", "9">>[d + 1]

RECURSIVE DecStr(_)
DecStr(n) == IF n < 10 THEN <<Digit(n)>> ELSE DecStr(n \div 10) \o <<Digit(n % 10)>>

\* fnmatch.fnmatchcase for patterns made of literals, '*' and '?'.
RECURSIVE fnmatchcase(_, _)
fnmatchcase(name, pat) ==
    IF pat = <<>> THEN name = <<>>
    ELSE IF Head(pat) = "*"
         THEN \/ fnmatchcase(name, Tail(pat))
              \/ name # <<>> /\ fnmatchcase(Tail(name), pat)
    ELSE /\ name # <<>>
         /\ Head(pat) = "?" \/ Head(pat) = Head(name)
         /\ fnmatchcase(Tail(name), Tail(pat))

\* ------------------------------------------------------------------------
\* human_readable_size
\* ------------------------------------------------------------------------

units == << <<"b","y","t","e","s">>, <<"K","i","B">>, <<"M","i","B">>,
            <<"G","i","B">>, <<"T","i","B">>, <<"P","i","B">> >>

RECURSIVE Pow1024(_)
Pow1024(k) == IF k = 0 THEN 1 ELSE 1024 * Pow1024(k - 1)

\* The number of times the loop divides by 1024.0: it stops at 5.
RECURSIVE reduce_count(_, _)
reduce_count(size_in_bytes, k) ==
    IF size_in_bytes >= Pow1024(k + 1) /\ k < 5
    THEN reduce_count(size_in_bytes, k + 1)
    ELSE k

\* "{:.2f}".format(n / 1024.0**k): n / 1024**k is exact in binary floating
\* point for the sizes of a bucket, and the format rounds a tie to even.
Hundredths(n, k) ==
    LET d == Pow1024(k)
        q == (n * 100) \div d
        r == (n * 100) % d
    IN  IF 2 * r > d \/ (2 * r = d /\ q % 2 = 1) THEN q + 1 ELSE q

human_readable_size(size_in_bytes) ==
    LET k == reduce_count(size_in_bytes, 0)
        h == Hundredths(size_in_bytes, k)
        size_str == IF k > 0
                    THEN DecStr(h \div 100) \o <<".">>
                         \o <<Digit((h % 100) \div 10), Digit(h % 10)>>
                    ELSE DecStr(size_in_bytes)
    IN  size_str \o <<" ">> \o units[k + 1]

\* ------------------------------------------------------------------------
\* list_bucket_files: the metadata of one blob
\* ------------------------------------------------------------------------

GsScheme == <<"g", "s", ":", "/", "/">>

\* A blob is [name, md5_hash, size, updated].
\* The metadata of a listing taken before any reference was gathered.
FileMetadataBeforeGathering(bucket_name, blob, referenced) ==
    LET filename       == blob.name
        full_file_path == GsScheme \o bucket_name \o <<"/">> \o filename
        file_name      == LastSegment(filename, "/")
    IN  [ file_name        |-> file_name,
          file_path        |-> full_file_path,
          submission_id    |-> Split(full_file_path, "/", 4)[4],
          size             |-> blob.size,
          md5              |-> blob.md5_hash,
          time_updated     |-> blob.updated,
          unique_key       |-> file_name \o <<".">> \o blob.md5_hash
                               \o <<".">> \o DecStr(blob.size),
          is_in_data_table |-> FALSE ]

\* The unique key put together without the dots: f"{file_name}{md5}{size}".
FileMetadataUndottedKey(bucket_name, blob, referenced) ==
    LET filename       == blob.name
        full_file_path == GsScheme \o bucket_name \o <<"/">> \o filename
        file_name      == LastSegment(filename, "/")
    IN  [ file_name        |-> file_name,
          file_path        |-> full_file_path,
          submission_id    |-> Split(full_file_path, "/", 4)[4],
          size             |-> blob.size,
          md5              |-> blob.md5_hash,
          time_updated     |-> blob.updated,
          unique_key       |-> file_name \o blob.md5_hash \o DecStr(blob.size),
          is_in_data_table |-> full_file_path \in referenced ]

FileMetadata(bucket_name, blob, referenced) ==
    LET filename       == blob.name
        full_file_path == GsScheme \o bucket_name \o <<"/">> \o filename
        file_name      == LastSegment(filename, "/")
    IN  [ file_name        |-> file_name,
          file_path        |-> full_file_path,
          submission_id    |-> Split(full_file_path, "/", 4)[4],
          size             |-> blob.size,
          md5              |-> blob.md5_hash,
          time_updated     |-> blob.updated,
          unique_key       |-> file_name \o <<".">> \o blob.md5_hash
                               \o <<".">> \o DecStr(blob.size),
          is_in_data_table |-> full_file_path \in referenced ]

\* The loop over the listing: directory placeholders are skipped, and a
\* path listed again replaces its entry in place (a dict keeps the position
\* of the first insertion).
RECURSIVE BuildBucketDict(_, _, _, _)
BuildBucketDict(bucket_name, blobs, referenced, acc) ==
    IF blobs = <<>> THEN acc
    ELSE LET blob == Head(blobs)
             md   == FileMetadata(bucket_name, blob, referenced)
             at   == {i \in 1..Len(acc) : acc[i].file_path = md.file_path}
             next == IF EndsWith(blob.name, <<"/">>) THEN acc
                     ELSE IF at = {} THEN Append(acc, md)
                     ELSE [i \in 1..Len(acc) |-> IF i \in at THEN md ELSE acc[i]]
         IN  BuildBucketDict(bucket_name, Tail(blobs), referenced, next)

\* ------------------------------------------------------------------------
\* choose_keepers, get_files_to_keep
\* ------------------------------------------------------------------------

\* min in the place of max: the first element with the smallest key.
MinByTimeUpdated(files) ==
    LET best == {i \in 1..Len(files) :
                    /\ \A j \in 1..Len(files) :
                          files[j].time_updated >= files[i].time_updated
                    /\ \A j \in 1..(i - 1) :
                          files[j].time_updated > files[i].time_updated}
    IN  files[CHOOSE i \in best : TRUE]

\* max(files, key=time_updated): the first element with the largest key.
MaxByTimeUpdated(files) ==
    LET best == {i \in 1..Len(files) :
                    /\ \A j \in 1..Len(files) :
                          files[j].time_updated <= files[i].time_updated
                    /\ \A j \in 1..(i - 1) :
                          files[j].time_updated < files[i].time_updated}
    IN  files[CHOOSE i \in best : TRUE]

\* Keep-one taken literally: the newest copy, referenced or not, unless all
\* are referenced.
choose_keepers_newest(duplicated_files) ==
    IF \A i \in 1..Len(duplicated_files) : duplicated_files[i].is_in_data_table
    THEN duplicated_files
    ELSE <<MaxByTimeUpdated(duplicated_files)>>

\* One copy kept of a group whose copies are all referenced.
choose_keepers_one_of_all(duplicated_files) ==
    IF \E i \in 1..Len(duplicated_files) : ~ duplicated_files[i].is_in_data_table
    THEN IF \E i \in 1..Len(duplicated_files) : duplicated_files[i].is_in_data_table
         THEN SelectSeq(duplicated_files, LAMBDA f : f.is_in_data_table)
         ELSE <<MaxByTimeUpdated(duplicated_files)>>
    ELSE <<MaxByTimeUpdated(duplicated_files)>>

\* The newest copy kept next to the referenced ones.
choose_keepers_and_newest(duplicated_files) ==
    IF \A i \in 1..Len(duplicated_files) : duplicated_files[i].is_in_data_table
    THEN duplicated_files
    ELSE IF \E i \in 1..Len(duplicated_files) : duplicated_files[i].is_in_data_table
    THEN SelectSeq(duplicated_files,
                   LAMBDA f : \/ f.is_in_data_table
                              \/ f = MaxByTimeUpdated(duplicated_files))
    ELSE <<MaxByTimeUpdated(duplicated_files)>>

choose_keepers(duplicated_files) ==
    IF \A i \in 1..Len(duplicated_files) : duplicated_files[i].is_in_data_table
    THEN duplicated_files
    ELSE IF \E i \in 1..Len(duplicated_files) : duplicated_files[i].is_in_data_table
    THEN SelectSeq(duplicated_files, LAMBDA f : f.is_in_data_table)
    ELSE <<MaxByTimeUpdated(duplicated_files)>>

\* The loop keeping, for each unique key, the file seen first.
RECURSIVE KeepLoopFirstSeen(_, _)
KeepLoopFirstSeen(entries, files_to_keep) ==
    IF entries = <<>> THEN files_to_keep
    ELSE LET this_file_metadata == Head(entries)
             this_unique_key    == this_file_metadata.unique_key
             next ==
               IF this_unique_key \notin DOMAIN files_to_keep
               THEN [k \in DOMAIN files_to_keep \cup {this_unique_key} |->
                       IF k = this_unique_key THEN <<this_file_metadata>>
                       ELSE files_to_keep[k]]
               ELSE files_to_keep
         IN  KeepLoopFirstSeen(Tail(entries), next)

\* The loop choosing among the file kept last and the new one only.
RECURSIVE KeepLoopLastKept(_, _)
KeepLoopLastKept(entries, files_to_keep) ==
    IF entries = <<>> THEN files_to_keep
    ELSE LET this_file_metadata == Head(entries)
             this_unique_key    == this_file_metadata.unique_key
             next ==
               IF this_unique_key \notin DOMAIN files_to_keep
               THEN [k \in DOMAIN files_to_keep \cup {this_unique_key} |->
                       IF k = this_unique_key THEN <<this_file_metadata>>
                       ELSE files_to_keep[k]]
               ELSE [files_to_keep EXCEPT ![this_unique_key] =
                       choose_keepers(<<@[Len(@)], this_file_metadata>>)]
         IN  KeepLoopLastKept(Tail(entries), next)

\* The loop of get_files_to_keep: files_to_keep maps a unique key to the
\* list of the files kept so far for it.
RECURSIVE KeepLoop(_, _)
KeepLoop(entries, files_to_keep) ==
    IF entries = <<>> THEN files_to_keep
    ELSE LET this_file_metadata == Head(entries)
             this_unique_key    == this_file_metadata.unique_key
             next ==
               IF this_unique_key \notin DOMAIN files_to_keep
               THEN [k \in DOMAIN files_to_keep \cup {this_unique_key} |->
                       IF k = this_unique_key THEN <<this_file_metadata>>
                       ELSE files_to_keep[k]]
               ELSE [files_to_keep EXCEPT ![this_unique_key] =
                       choose_keepers(@ \o <<this_file_metadata>>)]
         IN  KeepLoop(Tail(entries), next)

\* The paths flattened from files_to_keep, the unreferenced ones left out.
get_files_to_keep_referenced(bucket_dict) ==
    LET files_to_keep == KeepLoop(bucket_dict, <<>>)
    IN  UNION { {files_to_keep[k][i].file_path :
                    i \in { j \in 1..Len(files_to_keep[k]) :
                              files_to_keep[k][j].is_in_data_table }}
                : k \in DOMAIN files_to_keep }

get_files_to_keep(bucket_dict) ==
    LET files_to_keep == KeepLoop(bucket_dict, <<>>)
    IN  UNION { {files_to_keep[k][i].file_path : i \in 1..Len(files_to_keep[k])}
                : k \in DOMAIN files_to_keep }

\* ------------------------------------------------------------------------
\* can_delete
\* ------------------------------------------------------------------------

DotLog   == <<".", "l", "o", "g">>
DashRc   == <<"-", "r", "c", ".", "t", "x", "t">>
NameRc   == <<"r", "c">>
ExecSh   == <<"e", "x", "e", "c", ".", "s", "h">>
Script   == <<"s", "c", "r", "i", "p", "t">>
Stderr   == <<"s", "t", "d", "e", "r", "r">>
Stdout   == <<"s", "t", "d", "o", "u", "t">>
Output   == <<"o", "u", "t", "p", "u", "t">>

\* The include globs consulted before the protected names.
can_delete_include_first(f, include, exclude) ==
    LET filename == LastSegment(f, "/")
    IN  IF include # <<>>
           /\ \E i \in 1..Len(include) : fnmatchcase(filename, include[i])
        THEN TRUE
        ELSE IF EndsWith(filename, DotLog) THEN FALSE
        ELSE IF EndsWith(filename, DashRc) THEN FALSE
        ELSE IF filename = NameRc THEN FALSE
        ELSE IF filename \in {ExecSh, Script} THEN FALSE
        ELSE IF filename \in {Stderr, Stdout, Output} THEN FALSE
        ELSE IF include # <<>> THEN FALSE
        ELSE IF exclude # <<>>
             THEN ~ \E i \in 1..Len(exclude) : fnmatchcase(filename, exclude[i])
        ELSE TRUE

\* A file deletable only when every include glob matches its name.
can_delete_include_all(f, include, exclude) ==
    LET filename == LastSegment(f, "/")
    IN  IF EndsWith(filename, DotLog) THEN FALSE
        ELSE IF EndsWith(filename, DashRc) THEN FALSE
        ELSE IF filename = NameRc THEN FALSE
        ELSE IF filename \in {ExecSh, Script} THEN FALSE
        ELSE IF filename \in {Stderr, Stdout, Output} THEN FALSE
        ELSE IF include # <<>>
             THEN \A i \in 1..Len(include) : fnmatchcase(filename, include[i])
        ELSE IF exclude # <<>>
             THEN ~ \E i \in 1..Len(exclude) : fnmatchcase(filename, exclude[i])
        ELSE TRUE

\* The exclude globs consulted after the include globs.
can_delete_exclude_too(f, include, exclude) ==
    LET filename == LastSegment(f, "/")
    IN  IF EndsWith(filename, DotLog) THEN FALSE
        ELSE IF EndsWith(filename, DashRc) THEN FALSE
        ELSE IF filename = NameRc THEN FALSE
        ELSE IF filename \in {ExecSh, Script} THEN FALSE
        ELSE IF filename \in {Stderr, Stdout, Output} THEN FALSE
        ELSE /\ include # <<>> =>
                  \E i \in 1..Len(include) : fnmatchcase(filename, include[i])
             /\ exclude # <<>> =>
                  ~ \E i \in 1..Len(exclude) : fnmatchcase(filename, exclude[i])

can_delete(f, include, exclude) ==
    LET filename == LastSegment(f, "/")
    IN  IF EndsWith(filename, DotLog) THEN FALSE
        ELSE IF EndsWith(filename, DashRc) THEN FALSE
        ELSE IF filename = NameRc THEN FALSE
        ELSE IF filename \in {ExecSh, Script} THEN FALSE
        ELSE IF filename \in {Stderr, Stdout, Output} THEN FALSE
        ELSE IF include # <<>>
             THEN \E i \in 1..Len(include) : fnmatchcase(filename, include[i])
        ELSE IF exclude # <<>>
             THEN ~ \E i \in 1..Len(exclude) : fnmatchcase(filename, exclude[i])
        ELSE TRUE

\* ------------------------------------------------------------------------
\* update_referenced_files
\* ------------------------------------------------------------------------

\* An attribute value is [t, v, items]:
\*   t = "str"    a string, v its characters
\*   t = "array"  a dict whose itemsType is 'AttributeValue', items its 'items'
\*   t = "dict"   any other dict, items its values()
\*   t = "list"   a list, items its elements
\*   t = "other"  a number, a boolean or None
RECURSIVE update_referenced_files(_, _)
update_referenced_files(attrs, bucket_prefix) ==
    UNION { LET attr == attrs[i]
            IN  IF attr.t \in {"array", "dict", "list"}
                THEN update_referenced_files(attr.items, bucket_prefix)
                ELSE IF attr.t = "str" /\ StartsWith(attr.v, bucket_prefix)
                THEN {attr.v}
                ELSE {}
            : i \in 1..Len(attrs) }

\* The pass over workspace['workspace']['attributes'].values(): only a
\* value that is itself a string is looked at.
WorkspaceReferences(values, bucket_prefix) ==
    { values[i].v : i \in { j \in 1..Len(values) :
                              /\ values[j].t = "str"
                              /\ StartsWith(values[j].v, bucket_prefix) } }

\* ------------------------------------------------------------------------
\* What the services can return
\* ------------------------------------------------------------------------

\* workspace['workspace']['bucketName'] and the prefix mop derives from it.
BucketName == <<"b">>

OtherBucketName == <<"c">>

Uri(bucket_name, filename) == GsScheme \o bucket_name \o <<"/">> \o filename

NameX      == <<"s", "/", "x">>
NameOldX   == <<"s", "/", "o", "/", "x">>
NameOtherX == <<"u", "/", "x">>
NameStdout == <<"s", "/">> \o Stdout
NameRoot   == <<"s">>
NameDir    == <<"s", "/">>

Blob(name, md5, size, updated) ==
    [name |-> name, md5_hash |-> md5, size |-> size, updated |-> updated]

\* The blobs a listing is drawn from: a file in a submission directory, a
\* copy of it deeper in that directory, a copy of it in a directory that is
\* no submission's, a job's stdout, an object at the bucket root whose name
\* is a submission id, and a directory placeholder.
BlobCatalogue ==
    { Blob(NameX,      <<"m">>, 5, 1),
      Blob(NameOldX,   <<"m">>, 5, 2),
      Blob(NameOtherX, <<"m">>, 5, 2),
      Blob(NameStdout, <<"n">>, 7, 1),
      Blob(NameRoot,   <<"k">>, 1024, 1),
      Blob(NameDir,    <<"d">>, 0, 1) }

\* Sequences of at most n distinct elements of S.
RECURSIVE SeqsUpTo(_, _)
SeqsUpTo(S, n) ==
    IF n = 0 THEN {<<>>}
    ELSE LET shorter == SeqsUpTo(S, n - 1)
         IN  shorter \cup
             { Append(q, x) : <<q, x>> \in
                 { <<q, x>> \in shorter \X S : x \notin Range(q) } }

\* A bucket holds one object per name.
Listings == SeqsUpTo(BlobCatalogue, MaxBlobs)

Str(chars)   == [t |-> "str",   v |-> chars, items |-> <<>>]
Array(items) == [t |-> "array", v |-> <<>>,  items |-> items]
Dict(items)  == [t |-> "dict",  v |-> <<>>,  items |-> items]
List(items)  == [t |-> "list",  v |-> <<>>,  items |-> items]
Other        == [t |-> "other", v |-> <<>>,  items |-> <<>>]

\* The values() of the workspace attributes.
WorkspaceAttributes ==
    { <<>>,
      << Array(<<Str(Uri(BucketName, NameOldX))>>),
         Str(Uri(BucketName, NameX)), Other >> }

\* Entities, each the values() of its attributes.
EntityA == [attributes |-> << Str(Uri(BucketName, NameX)) >>]
EntityB == [attributes |-> << Array(<<Str(Uri(BucketName, NameOldX)), Other>>),
                              Str(Uri(OtherBucketName, NameX)) >>]
EntityC == [attributes |-> << Dict(<< List(<<Str(Uri(BucketName, NameOtherX))>>) >>) >>]

\* The 'results' of one page of an entity query.
PageResults == { <<>>, <<EntityA>>, <<EntityB, EntityC>> }

\* The keys of the entity-type listing.
EntityTypeNames == {"sample", "pair"}

EntityTypeLists == SeqsUpTo(EntityTypeNames, MaxTypes)

\* The submissionId values of the submission listing.
SubmissionIdSets == { {}, {<<"s">>} }

\* What the user can type at the prompt.
Answers == {"y", "yes", "Y", "Yes", "YES", ""}

affirmations == {"Y", "Yes", "yes", "y"}

\* --include / --exclude: absent, or one or more globs.
GlobLists == { << <<"*">> >>, << <<"s", "t", "d", "*">>, <<"x">> >> }

\* The parser puts --include and --exclude in a mutually exclusive group.
Args ==
    { a \in [ dry_run : BOOLEAN, yes : BOOLEAN, keep_one : BOOLEAN,
              make_manifest : BOOLEAN, verbose : BOOLEAN,
              include : GlobLists \cup {<<>>}, exclude : GlobLists \cup {<<>>} ] :
        a.include = <<>> \/ a.exclude = <<>> }

\* ------------------------------------------------------------------------
\* One run of mop
\* ------------------------------------------------------------------------

VARIABLES
    args,                       \* the parsed command line
    workspace,                  \* the attributes of the workspace, as returned
    pc,                         \* where the run is
    steps,                      \* the stages the run has completed
    failure,                    \* the call that failed, "none" if none did
    referenced_files,
    scanned,                    \* the entities whose attributes were scanned
    entity_types,               \* the entity types still to be queried
    page, total_pages, all_entities,    \* the locals of _entity_paginator
    bucket_dict,                \* the inventory, in insertion order
    submission_ids, all_bucket_files, eligible_bucket_files,
    files_to_keep, potential_deletable_files, deletable_files,
    summary,                    \* the "Found n files to delete" reports printed
    manifest,                   \* the manifests written, each a list of rows
    prompts,                    \* the messages shown by _confirm_prompt
    answer,                     \* what the user typed
    gsrm_input,                 \* the standard input of each gsutil rm run
    gsrm_output,                \* what each gsutil rm run printed
    exit_code                   \* what the process exits with, -1 while running

vars == << args, scanned, workspace, gsrm_output, pc, steps, failure,
           referenced_files, entity_types, page,
           total_pages, all_entities, bucket_dict, submission_ids,
           all_bucket_files, eligible_bucket_files, files_to_keep,
           potential_deletable_files, deletable_files, summary, manifest,
           prompts, answer, gsrm_input, exit_code >>

bucket_prefix == GsScheme \o BucketName

Init ==
    /\ args \in Args
    /\ workspace = <<>>
    /\ scanned = {}
    /\ gsrm_output = <<>>
    /\ pc = "get_workspace"
    /\ steps = {}
    /\ failure = "none"
    /\ referenced_files = {}
    /\ entity_types = <<>>
    /\ page = 1
    /\ total_pages = 0
    /\ all_entities = <<>>
    /\ bucket_dict = <<>>
    /\ submission_ids = {}
    /\ all_bucket_files = {}
    /\ eligible_bucket_files = {}
    /\ files_to_keep = {}
    /\ potential_deletable_files = {}
    /\ deletable_files = <<>>
    /\ summary = <<>>
    /\ manifest = <<>>
    /\ prompts = <<>>
    /\ answer = ""
    /\ gsrm_input = <<>>
    /\ exit_code = -1

\* An uncaught exception leaves mop; main_as_cli turns it into the value of
\* __pretty_print_fc_exception.
PrettyPrintedException == 99

\* exit(1) in list_bucket_files.
BucketExit == 1

Abort(call, code) ==
    /\ pc' = "aborted"
    /\ failure' = call
    /\ exit_code' = code

Return(code) ==
    /\ pc' = "done"
    /\ exit_code' = code

\* fapi.get_workspace, and the pass over the workspace attributes.
GetWorkspace ==
    /\ pc = "get_workspace"
    /\ \/ /\ \E attrs \in WorkspaceAttributes :
               /\ workspace' = attrs
               /\ referenced_files' = WorkspaceReferences(attrs, bucket_prefix)
          /\ pc' = "list_entity_types"
          /\ UNCHANGED << failure, exit_code >>
       \/ /\ Abort("get_workspace", PrettyPrintedException)
          /\ UNCHANGED << workspace, referenced_files >>
    /\ UNCHANGED << args, scanned, gsrm_output, steps, entity_types, page, total_pages, all_entities,
                    bucket_dict, submission_ids, all_bucket_files,
                    eligible_bucket_files, files_to_keep,
                    potential_deletable_files, deletable_files, summary,
                    manifest, prompts, answer, gsrm_input >>

\* fapi.list_entity_types.
ListEntityTypes ==
    /\ pc = "list_entity_types"
    /\ \/ /\ \E types \in EntityTypeLists :
               /\ entity_types' = types
               /\ pc' = IF types = <<>> THEN "get_bucket" ELSE "entity_query"
               /\ steps' = IF types = <<>> THEN steps \cup {"gather"} ELSE steps
          /\ UNCHANGED << failure, exit_code >>
       \/ /\ Abort("list_entity_types", PrettyPrintedException)
          /\ UNCHANGED << entity_types, steps >>
    /\ UNCHANGED << args, scanned, workspace, gsrm_output, referenced_files, page, total_pages, all_entities,
                    bucket_dict, submission_ids, all_bucket_files,
                    eligible_bucket_files, files_to_keep,
                    potential_deletable_files, deletable_files, summary,
                    manifest, prompts, answer, gsrm_input >>

\* The references of a list of entities (the loop over the paginator's
\* result).
EntityReferences(entities) ==
    UNION { update_referenced_files(entities[i].attributes, bucket_prefix)
            : i \in 1..Len(entities) }

\* A page that fails, treated as the end of the entity type: what was
\* collected before it is scanned and the run goes on.
PageFailureSwallowed ==
    /\ failure' = "entity_query"
    /\ referenced_files' = referenced_files \cup EntityReferences(all_entities)
    /\ scanned' = scanned \cup Range(all_entities)
    /\ entity_types' = Tail(entity_types)
    /\ page' = 1
    /\ total_pages' = 0
    /\ all_entities' = <<>>
    /\ pc' = IF Tail(entity_types) = <<>> THEN "get_bucket" ELSE "entity_query"
    /\ steps' = IF Tail(entity_types) = <<>> THEN steps \cup {"gather"} ELSE steps
    /\ UNCHANGED exit_code

\* fapi._check_response_code raises on any page that is not a 200: the
\* exception leaves _entity_paginator and mop.
PageFailure ==
    /\ Abort("entity_query", PrettyPrintedException)
    /\ UNCHANGED << referenced_files, scanned, entity_types, page,
                    total_pages, all_entities, steps >>

\* One fapi.get_entities_query of _entity_paginator for the first entity type
\* of entity_types: page 1 tells the number of pages.  After the last page
\* the paginator returns, its locals are gone, and mop scans the entities it
\* collected.
EntityQuery ==
    /\ pc = "entity_query"
    /\ \/ \E results \in PageResults, count \in 0..MaxPages :
            LET entities == all_entities \o results
                pages    == IF page = 1 THEN count ELSE total_pages
                rest     == Tail(entity_types)
            IN  /\ page > 1 => count = total_pages
                /\ IF page + 1 <= pages
                   THEN /\ page' = page + 1
                        /\ total_pages' = pages
                        /\ all_entities' = entities
                        /\ UNCHANGED << referenced_files, scanned,
                                        entity_types, pc, steps >>
                   ELSE /\ page' = 1
                        /\ total_pages' = 0
                        /\ all_entities' = <<>>
                        /\ referenced_files' =
                              referenced_files \cup EntityReferences(entities)
                        /\ scanned' = scanned \cup Range(entities)
                        /\ entity_types' = rest
                        /\ pc' = IF rest = <<>> THEN "get_bucket" ELSE "entity_query"
                        /\ steps' = IF rest = <<>> THEN steps \cup {"gather"} ELSE steps
                /\ UNCHANGED << failure, exit_code >>
       \/ PageFailure
    /\ UNCHANGED << args, workspace, gsrm_output, bucket_dict, submission_ids, all_bucket_files,
                    eligible_bucket_files, files_to_keep,
                    potential_deletable_files, deletable_files, summary,
                    manifest, prompts, answer, gsrm_input >>

\* The bucket's failure reported and the listing attempted all the same.
BucketFailureIgnored ==
    /\ failure' = "get_bucket"
    /\ pc' = "list_blobs"
    /\ UNCHANGED exit_code

\* The except clause around get_bucket: print, then exit(1).
BucketFailure == Abort("get_bucket", BucketExit)

\* storage.Client() and storage_client.get_bucket in list_bucket_files: the
\* client's constructor raises outside the try; any failure of get_bucket
\* prints 'Bucket does not exist!' and exits with 1.
GetBucket ==
    /\ pc = "get_bucket"
    /\ \/ /\ pc' = "list_blobs"
          /\ UNCHANGED << failure, exit_code >>
       \/ Abort("storage_client", PrettyPrintedException)
       \/ BucketFailure
    /\ UNCHANGED << args, scanned, workspace, gsrm_output, steps, referenced_files, entity_types, page,
                    total_pages, all_entities, bucket_dict, submission_ids,
                    all_bucket_files, eligible_bucket_files, files_to_keep,
                    potential_deletable_files, deletable_files, summary,
                    manifest, prompts, answer, gsrm_input >>

\* storage_client.list_blobs and the loop over it.  The listing is lazy: a
\* failure surfaces in the loop, as an exception of the storage library, and
\* the dictionary built so far is lost with list_bucket_files' frame.  No
\* call between the try and `except subprocess.CalledProcessError` starts a
\* subprocess, so that handler (return 1) is never entered.
ListBlobs ==
    /\ pc = "list_blobs"
    /\ \/ /\ \E blobs \in Listings :
               bucket_dict' = BuildBucketDict(BucketName, blobs, referenced_files, <<>>)
          /\ pc' = "list_submissions"
          /\ steps' = steps \cup {"inventory"}
          /\ UNCHANGED << failure, exit_code >>
       \/ /\ Abort("list_blobs", PrettyPrintedException)
          /\ UNCHANGED << bucket_dict, steps >>
    /\ UNCHANGED << args, scanned, workspace, gsrm_output, referenced_files, entity_types, page, total_pages,
                    all_entities, submission_ids, all_bucket_files,
                    eligible_bucket_files, files_to_keep,
                    potential_deletable_files, deletable_files, summary,
                    manifest, prompts, answer, gsrm_input >>

\* A failed submission listing taken for a listing of no submission.
ListSubmissionsFailureAsEmpty ==
    /\ pc = "list_submissions"
    /\ \/ /\ \E ids \in SubmissionIdSets :
               /\ submission_ids' = ids
               /\ eligible_bucket_files' =
                     { bucket_dict[i].file_path : i \in
                         { j \in 1..Len(bucket_dict) :
                             bucket_dict[j].submission_id \in ids } }
          /\ UNCHANGED failure
       \/ /\ failure' = "list_submissions"
          /\ submission_ids' = {}
          /\ eligible_bucket_files' = {}
    /\ all_bucket_files' =
          { bucket_dict[i].file_path : i \in 1..Len(bucket_dict) }
    /\ pc' = "select"
    /\ steps' = steps \cup {"eligible"}
    /\ UNCHANGED << args, scanned, workspace, gsrm_output, referenced_files,
                    entity_types, page, total_pages, all_entities,
                    bucket_dict, files_to_keep, potential_deletable_files,
                    deletable_files, summary, manifest, prompts, answer,
                    gsrm_input, exit_code >>

\* fapi.list_submissions, then the sets all_bucket_files and
\* eligible_bucket_files.
ListSubmissions ==
    /\ pc = "list_submissions"
    /\ \/ /\ \E ids \in SubmissionIdSets :
               /\ submission_ids' = ids
               /\ eligible_bucket_files' =
                     { bucket_dict[i].file_path : i \in
                         { j \in 1..Len(bucket_dict) :
                             bucket_dict[j].submission_id \in ids } }
          /\ all_bucket_files' =
                { bucket_dict[i].file_path : i \in 1..Len(bucket_dict) }
          /\ pc' = "select"
          /\ steps' = steps \cup {"eligible"}
          /\ UNCHANGED << failure, exit_code >>
       \/ /\ Abort("list_submissions", PrettyPrintedException)
          /\ UNCHANGED << submission_ids, all_bucket_files,
                          eligible_bucket_files, steps >>
    /\ UNCHANGED << args, scanned, workspace, gsrm_output, referenced_files, entity_types, page, total_pages,
                    all_entities, bucket_dict, files_to_keep,
                    potential_deletable_files, deletable_files, summary,
                    manifest, prompts, answer, gsrm_input >>

\* The orders in which a set can be iterated.
Orderings(S) == { q \in SeqsUpTo(S, Cardinality(S)) : Len(q) = Cardinality(S) }

\* bucket_dict[f]
Entry(dict, f) == dict[CHOOSE i \in 1..Len(dict) : dict[i].file_path = f]

\* sum(bucket_dict[f]['size'] for f in bucket_dict)
RECURSIVE SumSizesOfInventory(_, _)
SumSizesOfInventory(dict, files) ==
    IF dict = <<>> THEN 0
    ELSE Head(dict).size + SumSizesOfInventory(Tail(dict), files)

\* sum(bucket_dict[f]['size'] for f in deletable_files)
RECURSIVE SumSizes(_, _)
SumSizes(dict, files) ==
    IF files = <<>> THEN 0
    ELSE Entry(dict, Head(files)).size + SumSizes(dict, Tail(files))

\* The count and the size that the report and the warning message carry.
Report(dict, files) ==
    [ count |-> Len(files), size |-> human_readable_size(SumSizes(dict, files)) ]

\* The set differences and the filter of mop, for the inventory, the flags
\* and the sets the run holds; the result is a set, which the list
\* comprehension iterates in some order.
FilesToKeep(a, dict, kept) ==
    IF a.keep_one THEN get_files_to_keep(dict) ELSE kept

\* The differences taken from all the bucket's files, as before the
\* submission directories were looked at.
PotentialDeletableAllFiles(a, eligible, keepers, referenced) ==
    IF a.keep_one THEN all_bucket_files \ keepers ELSE all_bucket_files \ referenced

\* The files to keep subtracted in both modes.
PotentialDeletableKeepers(a, eligible, keepers, referenced) ==
    eligible \ keepers

\* The referenced files subtracted in both modes.
PotentialDeletablePlain(a, eligible, keepers, referenced) ==
    eligible \ referenced

PotentialDeletable(a, eligible, keepers, referenced) ==
    IF a.keep_one THEN eligible \ keepers ELSE eligible \ referenced

Deletable(a, potential) ==
    { f \in potential : can_delete(f, a.include, a.exclude) }

\* The selection without the return on an empty result.
SelectCandidatesNoEarlyReturn ==
    /\ pc = "select"
    /\ LET keepers   == FilesToKeep(args, bucket_dict, files_to_keep)
           potential == PotentialDeletable(args, eligible_bucket_files,
                                           keepers, referenced_files)
       IN  /\ files_to_keep' = keepers
           /\ potential_deletable_files' = potential
           /\ deletable_files' \in Orderings(Deletable(args, potential))
    /\ steps' = steps \cup {"select"}
    /\ summary' = IF args.verbose \/ args.dry_run
                  THEN Append(summary, Report(bucket_dict, deletable_files'))
                  ELSE summary
    /\ pc' = IF args.make_manifest THEN "manifest" ELSE "gate"
    /\ UNCHANGED << args, scanned, workspace, gsrm_output, failure,
                    referenced_files, entity_types, page, total_pages,
                    all_entities, bucket_dict, submission_ids,
                    all_bucket_files, eligible_bucket_files, manifest,
                    prompts, answer, gsrm_input, exit_code >>

\* From the set differences to the report: an empty result returns 0 (after
\* "No files to mop" under --verbose, which is no report of a count or size).
SelectCandidates ==
    /\ pc = "select"
    /\ LET keepers   == FilesToKeep(args, bucket_dict, files_to_keep)
           potential == PotentialDeletable(args, eligible_bucket_files,
                                           keepers, referenced_files)
       IN  /\ files_to_keep' = keepers
           /\ potential_deletable_files' = potential
           /\ deletable_files' \in Orderings(Deletable(args, potential))
    /\ steps' = steps \cup {"select"}
    /\ IF Len(deletable_files') = 0
       THEN /\ Return(0)
            /\ UNCHANGED summary
       ELSE /\ summary' = IF args.verbose \/ args.dry_run
                          THEN Append(summary, Report(bucket_dict, deletable_files'))
                          ELSE summary
            /\ pc' = IF args.make_manifest THEN "manifest" ELSE "gate"
            /\ UNCHANGED exit_code
    /\ UNCHANGED << args, scanned, workspace, gsrm_output, failure, referenced_files, entity_types, page,
                    total_pages, all_entities, bucket_dict, submission_ids,
                    all_bucket_files, eligible_bucket_files, manifest, prompts,
                    answer, gsrm_input >>

\* The order of the characters that occur in the paths.
Alphabet ==
    << "-", ".", "/", "0", "1", "2", "3", "4", "5", "6", "7", "8", "9", ":",
       "a", "b", "c", "d", "e", "f", "g", "h", "i", "j", "k", "l", "m", "n",
       "o", "p", "q", "r", "s", "t", "u", "v", "w", "x", "y", "z" >>

CodePoint(c) == Find(Alphabet, c, 1)

\* a < b for two strings.
RECURSIVE StrLess(_, _)
StrLess(a, b) ==
    IF b = <<>> THEN FALSE
    ELSE IF a = <<>> THEN TRUE
    ELSE IF Head(a) = Head(b) THEN StrLess(Tail(a), Tail(b))
    ELSE CodePoint(Head(a)) < CodePoint(Head(b))

\* One row per entry of bucket_dict, with the columns of the manifest.
ManifestRow(md, files) ==
    [ file_path           |-> md.file_path,
      file_name           |-> md.file_name,
      to_delete           |-> md.file_path \in Range(files),
      is_in_data_table    |-> md.is_in_data_table,
      size                |-> md.size,
      size_human_readable |-> human_readable_size(md.size),
      md5                 |-> md.md5,
      time_updated        |-> md.time_updated ]

\* sort_values(by=['to_delete', 'file_path'], ascending=[False, False])
RowBefore(r, q) ==
    \/ r.to_delete /\ ~ q.to_delete
    \/ r.to_delete = q.to_delete /\ StrLess(q.file_path, r.file_path)

\* The manifest of the files to delete alone.
ManifestRowsOfCandidates(dict, files) ==
    LET rows == { r \in { ManifestRow(dict[i], files) : i \in 1..Len(dict) } :
                    r.to_delete }
        rank(r) == 1 + Cardinality({ q \in rows : RowBefore(q, r) })
    IN  [ i \in 1..Cardinality(rows) |-> CHOOSE r \in rows : rank(r) = i ]

ManifestRows(dict, files) ==
    LET rows == { ManifestRow(dict[i], files) : i \in 1..Len(dict) }
        rank(r) == 1 + Cardinality({ q \in rows : RowBefore(q, r) })
    IN  [ i \in 1..Cardinality(rows) |-> CHOOSE r \in rows : rank(r) = i ]

\* --make-manifest: the csv of all the bucket's files.
WriteManifest ==
    /\ pc = "manifest"
    /\ manifest' = Append(manifest, ManifestRows(bucket_dict, deletable_files))
    /\ steps' = steps \cup {"manifest"}
    /\ pc' = "gate"
    /\ UNCHANGED << args, scanned, workspace, gsrm_output, failure, referenced_files, entity_types, page,
                    total_pages, all_entities, bucket_dict, submission_ids,
                    all_bucket_files, eligible_bucket_files, files_to_keep,
                    potential_deletable_files, deletable_files, summary,
                    prompts, answer, gsrm_input, exit_code >>

\* The gate asking for confirmation under --yes too.
GatePromptAlways ==
    /\ pc = "gate"
    /\ steps' = steps \cup {"gate"}
    /\ IF args.dry_run
       THEN /\ Return(0)
            /\ UNCHANGED prompts
       ELSE /\ prompts' = Append(prompts, Report(bucket_dict, deletable_files))
            /\ pc' = "confirm"
            /\ UNCHANGED exit_code
    /\ UNCHANGED << args, scanned, workspace, gsrm_output, failure,
                    referenced_files, entity_types, page, total_pages,
                    all_entities, bucket_dict, submission_ids,
                    all_bucket_files, eligible_bucket_files, files_to_keep,
                    potential_deletable_files, deletable_files, summary,
                    manifest, answer, gsrm_input >>

\* The gate with --yes looked at before --dry-run.
GateYesFirst ==
    /\ pc = "gate"
    /\ steps' = steps \cup {"gate"}
    /\ IF args.yes
       THEN /\ pc' = "delete"
            /\ UNCHANGED << prompts, exit_code >>
       ELSE IF args.dry_run
       THEN /\ Return(0)
            /\ UNCHANGED prompts
       ELSE /\ prompts' = Append(prompts, Report(bucket_dict, deletable_files))
            /\ pc' = "confirm"
            /\ UNCHANGED exit_code
    /\ UNCHANGED << args, scanned, workspace, gsrm_output, failure, referenced_files, entity_types, page,
                    total_pages, all_entities, bucket_dict, submission_ids,
                    all_bucket_files, eligible_bucket_files, files_to_keep,
                    potential_deletable_files, deletable_files, summary,
                    manifest, answer, gsrm_input >>

\* `if args.dry_run or (not args.yes and not _confirm_prompt(message))`, up
\* to the prompt: a dry run returns, --yes goes on, otherwise the prompt is
\* shown.
Gate ==
    /\ pc = "gate"
    /\ steps' = steps \cup {"gate"}
    /\ IF args.dry_run
       THEN /\ Return(0)
            /\ UNCHANGED prompts
       ELSE IF args.yes
       THEN /\ pc' = "delete"
            /\ UNCHANGED << prompts, exit_code >>
       ELSE /\ prompts' = Append(prompts, Report(bucket_dict, deletable_files))
            /\ pc' = "confirm"
            /\ UNCHANGED exit_code
    /\ UNCHANGED << args, scanned, workspace, gsrm_output, failure, referenced_files, entity_types, page,
                    total_pages, all_entities, bucket_dict, submission_ids,
                    all_bucket_files, eligible_bucket_files, files_to_keep,
                    potential_deletable_files, deletable_files, summary,
                    manifest, answer, gsrm_input >>

\* The prompt with the default turned around: only an explicit refusal
\* declines.
ConfirmDefaultYes ==
    /\ pc = "confirm"
    /\ \E typed \in Answers :
         /\ answer' = typed
         /\ IF typed \in affirmations \cup {""}
            THEN /\ pc' = "delete"
                 /\ UNCHANGED exit_code
            ELSE Return(0)
    /\ UNCHANGED << args, scanned, workspace, gsrm_output, steps, failure, referenced_files, entity_types, page,
                    total_pages, all_entities, bucket_dict, submission_ids,
                    all_bucket_files, eligible_bucket_files, files_to_keep,
                    potential_deletable_files, deletable_files, summary,
                    manifest, prompts, gsrm_input >>

\* _confirm_prompt returns when the user has answered.
Confirm ==
    /\ pc = "confirm"
    /\ \E typed \in Answers :
         /\ answer' = typed
         /\ IF typed \in affirmations
            THEN /\ pc' = "delete"
                 /\ UNCHANGED exit_code
            ELSE Return(0)
    /\ UNCHANGED << args, scanned, workspace, gsrm_output, steps, failure, referenced_files, entity_types, page,
                    total_pages, all_entities, bucket_dict, submission_ids,
                    all_bucket_files, eligible_bucket_files, files_to_keep,
                    potential_deletable_files, deletable_files, summary,
                    manifest, prompts, gsrm_input >>

\* ' '.join(lines)
RECURSIVE JoinWithBlanks(_)
JoinWithBlanks(lines) ==
    IF lines = <<>> THEN <<>>
    ELSE IF Len(lines) = 1 THEN lines[1]
    ELSE lines[1] \o <<" ">> \o JoinWithBlanks(Tail(lines))

\* '\n'.join(lines)
RECURSIVE Join(_)
Join(lines) ==
    IF lines = <<>> THEN <<>>
    ELSE IF Len(lines) = 1 THEN lines[1]
    ELSE lines[1] \o <<"\n">> \o Join(Tail(lines))

\* What gsutil may print: every object removed, some of them, or none.
GsutilOutputs == {"removed all", "removed some", "removed none"}

\* A run that reports failure unless gsutil says it removed every object.
DeleteCheckingOutput ==
    /\ pc = "delete"
    /\ gsrm_input' = Append(gsrm_input, Join(deletable_files))
    /\ \E result \in GsutilOutputs :
          /\ gsrm_output' = Append(gsrm_output, result)
          /\ Return(IF result = "removed all" THEN 0 ELSE 1)
    /\ steps' = steps \cup {"delete"}
    /\ UNCHANGED << args, scanned, workspace, failure, referenced_files,
                    entity_types, page, total_pages, all_entities,
                    bucket_dict, submission_ids, all_bucket_files,
                    eligible_bucket_files, files_to_keep,
                    potential_deletable_files, deletable_files, summary,
                    manifest, prompts, answer >>

\* gsutil -m rm -I, fed the deletable files; its output is printed when
\* verbose and not looked at otherwise.
Delete ==
    /\ pc = "delete"
    /\ gsrm_input' = Append(gsrm_input, Join(deletable_files))
    /\ \E result \in GsutilOutputs : gsrm_output' = Append(gsrm_output, result)
    /\ steps' = steps \cup {"delete"}
    /\ Return(0)
    /\ UNCHANGED << args, scanned, workspace, failure, referenced_files, entity_types, page,
                    total_pages, all_entities, bucket_dict, submission_ids,
                    all_bucket_files, eligible_bucket_files, files_to_keep,
                    potential_deletable_files, deletable_files, summary,
                    manifest, prompts, answer >>

Next ==
    \/ GetWorkspace
    \/ ListEntityTypes
    \/ EntityQuery
    \/ GetBucket
    \/ ListBlobs
    \/ ListSubmissions
    \/ SelectCandidates
    \/ WriteManifest
    \/ Gate
    \/ Confirm
    \/ Delete

Spec == Init /\ [][Next]_vars

\* The run always goes on: every call returns or fails.
FairSpec == Spec /\ WF_vars(Next)

TypeOK ==
    /\ pc \in {"get_workspace", "list_entity_types", "entity_query",
               "get_bucket", "list_blobs", "list_submissions", "select",
               "manifest", "gate", "confirm", "delete", "done", "aborted"}
    /\ exit_code \in {-1, 0, BucketExit, PrettyPrintedException}

\* ------------------------------------------------------------------------
\* Properties of a run
\* ------------------------------------------------------------------------

\* The final deletion candidate set.
FinalCandidates == Range(deletable_files)

Inventory == Range(bucket_dict)

Selected == "select" \in steps

\* The lines the bulk-delete utility reads in its n-th run.
DeleteLines(n) == Range(Split(gsrm_input[n], "\n", Len(gsrm_input[n])))

\* C1: no inventory object whose full path is in the ReferencedSet is in the
\* final deletion candidate set, in plain mode and in keep-one mode and under
\* every include/exclude setting; nor is it among the lines handed to the
\* bulk-delete utility.
C1_ReferencedNeverCandidate ==
    \A e \in Inventory :
        e.file_path \in referenced_files =>
            /\ e.file_path \notin FinalCandidates
            /\ \A n \in 1..Len(gsrm_input) : e.file_path \notin DeleteLines(n)

\* A keep-one run that deletes a newer unreferenced copy of a referenced,
\* eligible file that the safety filter would let go.
C1_Witness ==
    /\ args.keep_one
    /\ gsrm_input # <<>>
    /\ \E e \in Inventory, d \in Inventory :
          /\ e.file_path \in referenced_files
          /\ e.file_path \in eligible_bucket_files
          /\ can_delete(e.file_path, args.include, args.exclude)
          /\ d.unique_key = e.unique_key
          /\ d.time_updated > e.time_updated
          /\ d.file_path \in FinalCandidates

\* The calls of reference gathering and of bucket listing.
GatherAndListingCalls ==
    {"get_workspace", "list_entity_types", "entity_query", "storage_client",
     "get_bucket", "list_blobs"}

\* C2: if any step of reference gathering (workspace fetch, entity-type
\* listing, any page of any entity type) or of bucket listing fails, the run
\* aborts: no candidate set is computed and the bulk-delete utility is never
\* invoked.
C2_FailClosed ==
    failure \in GatherAndListingCalls =>
        /\ pc = "aborted"
        /\ exit_code # 0
        /\ ~ Selected
        /\ deletable_files = <<>>
        /\ prompts = <<>>
        /\ gsrm_input = <<>>

\* The second page of an entity type has failed after the first page brought
\* references.
C2_Witness ==
    /\ failure = "entity_query"
    /\ page = 2
    /\ EntityReferences(all_entities) # {}
    /\ pc = "aborted"

\* The run has returned from mop (it was not aborted by a failing call).
Returned == pc = "done"

\* The count and the total size of the final candidate set.
CandidateReport ==
    [ count |-> Cardinality(FinalCandidates),
      size  |-> human_readable_size(
                   SumSizes(bucket_dict, deletable_files)) ]

\* C3, as stated: a dry run never invokes the bulk-delete utility and never
\* prompts, and a dry run that returns has reported the candidate count and
\* total size and exits with 0.
C3_DryRunAlwaysReports ==
    args.dry_run =>
        /\ gsrm_input = <<>>
        /\ prompts = <<>>
        /\ Returned => summary = <<CandidateReport>> /\ exit_code = 0

\* C3, amended: a dry run never invokes the bulk-delete utility and never
\* prompts, whatever the other flags; a dry run that returns exits with 0,
\* and it has reported the candidate count and total size exactly when the
\* final candidate set is not empty (an empty set returns before the report).
C3_DryRun ==
    args.dry_run =>
        /\ gsrm_input = <<>>
        /\ prompts = <<>>
        /\ pc \notin {"confirm", "delete"}
        /\ Returned =>
             /\ exit_code = 0
             /\ FinalCandidates # {} => summary = <<CandidateReport>>
             /\ FinalCandidates = {} => summary = <<>>

\* A dry run with --yes, --keep-one and --make-manifest has returned after
\* reporting its candidates.
C3_Witness ==
    /\ args.dry_run /\ args.yes /\ args.keep_one /\ args.make_manifest
    /\ args.include # <<>>
    /\ Returned
    /\ FinalCandidates # {}
    /\ summary # <<>>

\* C4: in a run that is neither a dry run nor auto-confirmed, the prompt is
\* shown before any deletion, and an answer that is no affirmation means the
\* bulk-delete utility is never invoked and the run exits with 0.
C4_ConfirmationGate ==
    (~ args.dry_run /\ ~ args.yes) =>
        /\ (pc = "delete" \/ gsrm_input # <<>>) =>
              /\ Len(prompts) = 1
              /\ answer \in {"Y", "Yes", "yes", "y"}
        /\ (Returned /\ prompts # <<>> /\ answer \notin {"Y", "Yes", "yes", "y"}) =>
              /\ gsrm_input = <<>>
              /\ exit_code = 0
        /\ (prompts # <<>> /\ answer \in {"Y", "Yes", "yes", "y"}) =>
              pc \in {"delete", "done"}

\* The user has been asked and has pressed return: nothing was deleted.
C4_Witness ==
    /\ ~ args.dry_run /\ ~ args.yes
    /\ Returned
    /\ prompts # <<>>
    /\ answer = ""
    /\ FinalCandidates # {}
    /\ gsrm_input = <<>>

\* The names the safety filter protects.
ProtectedNames ==
    { <<"a">> \o DotLog, DotLog, <<"x">> \o DashRc, DashRc, NameRc, ExecSh,
      Script, Stdout, Stderr, Output }

IsProtected(name) ==
    \/ \E k \in 0..Len(name) :
          SubSeq(name, k + 1, Len(name)) \in {DotLog, DashRc}
    \/ name \in {NameRc, ExecSh, Script, Stdout, Stderr, Output}

InventoryPaths == { e.file_path : e \in Inventory }

\* The path lies in the directory of a submission of the listing.
UnderSubmissionDirectory(f) ==
    \E id \in submission_ids :
        StartsWith(f, bucket_prefix \o <<"/">> \o id \o <<"/">>)

\* C6: the final candidate set is a subset of the eligible set, which is a
\* subset of the paths of the inventory, and every path handed to the
\* bulk-delete utility is an inventory object lying under a known submission
\* directory.
C6_CandidatesUnderSubmissionDirectories ==
    /\ FinalCandidates \subseteq eligible_bucket_files
    /\ eligible_bucket_files \subseteq InventoryPaths
    /\ \A n \in 1..Len(gsrm_input) : \A f \in DeleteLines(n) :
          /\ f \in InventoryPaths
          /\ UnderSubmissionDirectory(f)

\* The subset chain of C6 alone, which the code keeps.
C6_SubsetChain ==
    /\ FinalCandidates \subseteq eligible_bucket_files
    /\ eligible_bucket_files \subseteq InventoryPaths
    /\ \A n \in 1..Len(gsrm_input) : DeleteLines(n) \subseteq eligible_bucket_files

\* C7: an inventory object is eligible if and only if its derived
\* submission_id is in the set of the submission listing; an object whose
\* submission_id is not in it is never a deletion candidate, referenced or
\* not, whatever the mode and the globs.
C7_EligibleIffKnownSubmission ==
    "eligible" \in steps =>
        \A e \in Inventory :
            /\ e.file_path \in eligible_bucket_files
                  <=> e.submission_id \in submission_ids
            /\ e.submission_id \notin submission_ids =>
                  /\ e.file_path \notin FinalCandidates
                  /\ \A n \in 1..Len(gsrm_input) : e.file_path \notin DeleteLines(n)

\* A keep-one run has passed over an unreferenced file that is not kept, that
\* the safety filter would let go and that is in no submission's directory,
\* while other submissions are known.
C7_Witness ==
    /\ args.keep_one
    /\ Returned
    /\ submission_ids # {}
    /\ \E e \in Inventory :
          /\ e.submission_id \notin submission_ids
          /\ e.file_path \notin referenced_files
          /\ e.file_path \notin files_to_keep
          /\ can_delete(e.file_path, args.include, args.exclude)

\* C8: if the bucket cannot be resolved the run ends with exit code 1, before
\* any inventory is built, before any candidate set is computed and without
\* invoking the bulk-delete utility.
C8_BucketNotFound ==
    failure = "get_bucket" =>
        /\ pc = "aborted"
        /\ exit_code = 1
        /\ "inventory" \notin steps
        /\ bucket_dict = <<>>
        /\ ~ Selected
        /\ deletable_files = <<>>
        /\ gsrm_input = <<>>

\* The bucket was not found after references had been gathered.
C8_Witness ==
    /\ failure = "get_bucket"
    /\ "gather" \in steps
    /\ referenced_files # {}
    /\ exit_code = 1

\* C9: in plain mode the final candidate set is the set of the eligible paths
\* that are not referenced and that the safety filter lets go; of a
\* referenced file and an unreferenced duplicate of it in the same known
\* submission directory, exactly the duplicate is deletable (no globs given).
C9_PlainModeCandidates ==
    (Selected /\ ~ args.keep_one) =>
        /\ FinalCandidates =
              { f \in eligible_bucket_files :
                  /\ f \notin referenced_files
                  /\ can_delete(f, args.include, args.exclude) }
        /\ \A e \in Inventory, d \in Inventory :
              ( /\ e.unique_key = d.unique_key
                /\ e.submission_id = d.submission_id
                /\ e.submission_id \in submission_ids
                /\ e.file_path \in referenced_files
                /\ d.file_path \notin referenced_files
                /\ args.include = <<>> /\ args.exclude = <<>>
                /\ ~ IsProtected(d.file_name) )
              => FinalCandidates \cap {e.file_path, d.file_path} = {d.file_path}

\* Scenario A: s/x is referenced, s/o/x is its unreferenced copy, and the
\* plain run has deleted s/o/x alone.
C9_Witness ==
    /\ ~ args.keep_one
    /\ args.include = <<>> /\ args.exclude = <<>>
    /\ submission_ids = {<<"s">>}
    /\ InventoryPaths = {Uri(BucketName, NameX), Uri(BucketName, NameOldX)}
    /\ Uri(BucketName, NameX) \in referenced_files
    /\ FinalCandidates = {Uri(BucketName, NameOldX)}
    /\ gsrm_input = <<Uri(BucketName, NameOldX)>>

\* The inventory entries of one unique content key, in inventory order.
Group(key) == SelectSeq(bucket_dict, LAMBDA e : e.unique_key = key)

\* The union, over the groups, of the resolver's result for the group.
ResolvedKeepers ==
    UNION { { k.file_path : k \in Range(choose_keepers(Group(e.unique_key))) }
            : e \in Inventory }

\* C10: in keep-one mode the final candidate set is the set of the eligible
\* paths that are not keepers and that the safety filter lets go, the keepers
\* being the union of the resolver's results for the groups of the inventory;
\* of a referenced file and an unreferenced duplicate of it the keepers hold
\* the referenced one alone, and the duplicate, when it is eligible and no
\* globs are given, is deletable.
C10_KeepOneCandidates ==
    (Selected /\ args.keep_one) =>
        /\ files_to_keep = ResolvedKeepers
        /\ FinalCandidates =
              { f \in eligible_bucket_files :
                  /\ f \notin ResolvedKeepers
                  /\ can_delete(f, args.include, args.exclude) }
        /\ \A e \in Inventory, d \in Inventory :
              ( /\ e.unique_key = d.unique_key
                /\ e.file_path \in referenced_files
                /\ d.file_path \notin referenced_files )
              => /\ files_to_keep \cap {e.file_path, d.file_path} = {e.file_path}
                 /\ ( /\ d.file_path \in eligible_bucket_files
                      /\ args.include = <<>> /\ args.exclude = <<>>
                      /\ ~ IsProtected(d.file_name) )
                    => d.file_path \in FinalCandidates

\* Scenario B: s/x is referenced, s/o/x is its newer unreferenced copy, and
\* the keep-one run has kept s/x and deleted s/o/x.
C10_Witness ==
    /\ args.keep_one
    /\ args.include = <<>> /\ args.exclude = <<>>
    /\ InventoryPaths = {Uri(BucketName, NameX), Uri(BucketName, NameOldX)}
    /\ referenced_files \cap InventoryPaths = {Uri(BucketName, NameX)}
    /\ files_to_keep = {Uri(BucketName, NameX)}
    /\ FinalCandidates = {Uri(BucketName, NameOldX)}
    /\ gsrm_input = <<Uri(BucketName, NameOldX)>>

\* ------------------------------------------------------------------------
\* The duplicate resolver on its own
\* ------------------------------------------------------------------------

\* The largest number of objects in the bucket given to the resolver.
MaxGroup == 3

NameDeepX == <<"s", "/", "p", "/", "x">>

\* Four copies of one file, each updated at one of three times, and a file
\* of another content.
DuplicateNames == {NameX, NameOldX, NameOtherX, NameDeepX}

DuplicateBlobs ==
    { Blob(n, <<"m">>, 5, t) : n \in DuplicateNames, t \in 1..3 }
        \cup { Blob(NameStdout, <<"n">>, 7, 1) }

DuplicateListings ==
    { q \in SeqsUpTo(DuplicateBlobs, MaxGroup) :
        \A i \in 1..Len(q), j \in 1..Len(q) : q[i].name = q[j].name => i = j }

ResolverInit ==
    /\ args \in { a \in Args : a.keep_one /\ a.dry_run /\ ~ a.yes /\ ~ a.verbose
                               /\ ~ a.make_manifest
                               /\ a.include = <<>> /\ a.exclude = <<>> }
    /\ workspace = <<>>
    /\ scanned = {}
    /\ gsrm_output = <<>>
    /\ pc = "resolve"
    /\ steps = {}
    /\ failure = "none"
    /\ referenced_files \in SUBSET { Uri(BucketName, n) : n \in DuplicateNames }
    /\ entity_types = <<>>
    /\ page = 1
    /\ total_pages = 0
    /\ all_entities = <<>>
    /\ \E blobs \in DuplicateListings :
           bucket_dict = BuildBucketDict(BucketName, blobs, referenced_files, <<>>)
    /\ submission_ids = {}
    /\ all_bucket_files = {}
    /\ eligible_bucket_files = {}
    /\ files_to_keep = {}
    /\ potential_deletable_files = {}
    /\ deletable_files = <<>>
    /\ summary = <<>>
    /\ manifest = <<>>
    /\ prompts = <<>>
    /\ answer = ""
    /\ gsrm_input = <<>>
    /\ exit_code = -1

\* files_to_keep = get_files_to_keep(bucket_dict)
ResolveDuplicates ==
    /\ pc = "resolve"
    /\ files_to_keep' = get_files_to_keep(bucket_dict)
    /\ pc' = "resolved"
    /\ UNCHANGED << args, scanned, workspace, gsrm_output, steps, failure,
                    referenced_files, entity_types, page, total_pages,
                    all_entities, bucket_dict, submission_ids,
                    all_bucket_files, eligible_bucket_files,
                    potential_deletable_files, deletable_files, summary,
                    manifest, prompts, answer, gsrm_input, exit_code >>

ResolverSpec == ResolverInit /\ [][ResolveDuplicates]_vars

\* The members of the duplicate group of e, and which of them are referenced.
GroupOf(e) == { d \in Inventory : d.unique_key = e.unique_key }

ReferencedOf(e) == { d \in GroupOf(e) : d.file_path \in referenced_files }

\* The members of the group of e that the resolver kept.
KeptOf(e) == { d \in GroupOf(e) : d.file_path \in files_to_keep }

\* C11: of a duplicate group whose members are all referenced the resolver
\* keeps every member, and the resolver applied to what it kept of the group
\* returns the same members again.
C11_AllReferencedKeepAll ==
    pc = "resolved" =>
        \A e \in Inventory :
            ReferencedOf(e) = GroupOf(e) =>
                /\ KeptOf(e) = GroupOf(e)
                /\ Range(choose_keepers(Group(e.unique_key))) = GroupOf(e)
                /\ choose_keepers(choose_keepers(Group(e.unique_key)))
                      = choose_keepers(Group(e.unique_key))

\* Three copies updated at two different times, all referenced, all kept.
C11_Witness ==
    /\ pc = "resolved"
    /\ \E e \in Inventory :
          /\ Cardinality(GroupOf(e)) = 3
          /\ ReferencedOf(e) = GroupOf(e)
          /\ \E d \in GroupOf(e) : d.time_updated # e.time_updated
          /\ KeptOf(e) = GroupOf(e)

\* C12: of a duplicate group of which some members are referenced and some
\* are not, the resolver keeps the referenced members and no other, whatever
\* the update times of the members and the order of the listing.
C12_MixedKeepReferenced ==
    pc = "resolved" =>
        \A e \in Inventory :
            (ReferencedOf(e) # {} /\ ReferencedOf(e) # GroupOf(e)) =>
                /\ KeptOf(e) = ReferencedOf(e)
                /\ Range(choose_keepers(Group(e.unique_key))) = ReferencedOf(e)

\* Three copies of which the one listed last, the oldest, is the only one
\* referenced: it alone is kept.
C12_Witness ==
    /\ pc = "resolved"
    /\ Len(bucket_dict) = 3
    /\ LET e == bucket_dict[3]
       IN  /\ Cardinality(GroupOf(e)) = 3
           /\ ReferencedOf(e) = {e}
           /\ \A d \in GroupOf(e) \ {e} : d.time_updated > e.time_updated
           /\ KeptOf(e) = {e}

\* C13: of a duplicate group of which no member is referenced the resolver
\* keeps exactly one member, and no member of the group was updated later
\* than the one kept; when several members share the latest update time,
\* still exactly one is kept.
C13_NoneReferencedKeepNewest ==
    pc = "resolved" =>
        \A e \in Inventory :
            ReferencedOf(e) = {} =>
                /\ Cardinality(KeptOf(e)) = 1
                /\ \A k \in KeptOf(e), d \in GroupOf(e) :
                      d.time_updated <= k.time_updated

\* Three unreferenced copies, the oldest listed first and the two others
\* updated at the same time: one of the two is kept.
C13_Witness ==
    /\ pc = "resolved"
    /\ Len(bucket_dict) = 3
    /\ LET e == bucket_dict[1]
       IN  /\ Cardinality(GroupOf(e)) = 3
           /\ ReferencedOf(e) = {}
           /\ e.time_updated < bucket_dict[2].time_updated
           /\ bucket_dict[2].time_updated = bucket_dict[3].time_updated
           /\ Cardinality(KeptOf(e)) = 1
           /\ e \notin KeptOf(e)

\* ------------------------------------------------------------------------
\* The safety filter on its own
\* ------------------------------------------------------------------------

\* The largest number of globs in an include or exclude list.
MaxGlobs == 2

NameXY   == <<"s", "/", "x", "y">>
NameALog == <<"s", "/", "a">> \o DotLog

\* The paths given to the filter: two plain files and two protected ones.
FilterPaths ==
    { Uri(BucketName, n) : n \in {NameX, NameXY, NameStdout, NameALog} }

\* A literal, a glob with '?', a glob matching a protected suffix, a glob
\* matching the path but no file name, and the glob matching every name.
Globs ==
    { <<"x">>, <<"?", "y">>, <<"*">> \o DotLog, <<"s", "/", "*">>, <<"*">> }

\* nargs='+': a list given has at least one glob; None when not given.
FilterGlobLists == SeqsUpTo(Globs, MaxGlobs)

\* can_delete takes the two lists as they come, both given too.
FilterInit ==
    /\ args \in [ dry_run : {TRUE}, yes : {FALSE}, keep_one : {FALSE},
                  make_manifest : {FALSE}, verbose : {FALSE},
                  include : FilterGlobLists, exclude : FilterGlobLists ]
    /\ workspace = <<>>
    /\ scanned = {}
    /\ gsrm_output = <<>>
    /\ pc = "filter"
    /\ steps = {}
    /\ failure = "none"
    /\ referenced_files = {}
    /\ entity_types = <<>>
    /\ page = 1
    /\ total_pages = 0
    /\ all_entities = <<>>
    /\ bucket_dict = <<>>
    /\ submission_ids = {}
    /\ all_bucket_files = {}
    /\ eligible_bucket_files = {}
    /\ files_to_keep = {}
    /\ potential_deletable_files \in SUBSET FilterPaths
    /\ deletable_files = <<>>
    /\ summary = <<>>
    /\ manifest = <<>>
    /\ prompts = <<>>
    /\ answer = ""
    /\ gsrm_input = <<>>
    /\ exit_code = -1

\* deletable_files = [f for f in potential_deletable_files if can_delete(...)]
FilterCandidates ==
    /\ pc = "filter"
    /\ deletable_files' \in Orderings(Deletable(args, potential_deletable_files))
    /\ pc' = "filtered"
    /\ UNCHANGED << args, scanned, workspace, gsrm_output, steps, failure,
                    referenced_files, entity_types, page, total_pages,
                    all_entities, bucket_dict, submission_ids,
                    all_bucket_files, eligible_bucket_files, files_to_keep,
                    potential_deletable_files, summary, manifest, prompts,
                    answer, gsrm_input, exit_code >>

FilterSpec == FilterInit /\ [][FilterCandidates]_vars

\* The paths with an unprotected file name that the filter was given.
Unprotected ==
    { f \in potential_deletable_files : ~ IsProtected(LastSegment(f, "/")) }

\* Whether some glob of the list matches the file name of the path.
MatchesSome(f, globs) ==
    \E i \in 1..Len(globs) : fnmatchcase(LastSegment(f, "/"), globs[i])

C15_IncludePrecedence ==
    (pc = "filtered" /\ args.include # <<>> /\ args.exclude # <<>>) =>
        \A f \in Unprotected :
            f \in FinalCandidates <=> MatchesSome(f, args.include)

\* s/x filtered under --include x --exclude * : both match, and it is let go.
C15_Witness ==
    /\ pc = "filtered"
    /\ args.include = << <<"x">> >>
    /\ args.exclude = << <<"*">> >>
    /\ Uri(BucketName, NameX) \in potential_deletable_files
    /\ Uri(BucketName, NameX) \in FinalCandidates

\* ------------------------------------------------------------------------
\* Properties of the gathering of references
\* ------------------------------------------------------------------------

\* Every string found at any depth of a list of attribute values.
RECURSIVE ScalarStrings(_)
ScalarStrings(values) ==
    UNION { IF values[i].t = "str" THEN {values[i].v}
            ELSE ScalarStrings(values[i].items)
            : i \in 1..Len(values) }

PrefixedScalars(values) ==
    { v \in ScalarStrings(values) : StartsWith(v, bucket_prefix) }

\* C16: once the references are gathered, the ReferencedSet is the set of
\* the strings that start with the bucket's URI prefix and occur at any
\* nesting depth in the workspace attributes or in the attributes of an
\* entity.
C16_ReferencedSetIsAllScalars ==
    "gather" \in steps =>
        referenced_files =
            PrefixedScalars(workspace)
                \cup UNION { PrefixedScalars(e.attributes) : e \in scanned }

\* What the run gathers: the strings at any depth of the entities'
\* attributes, and of the workspace attributes the strings at the top only.
C16_GatheredAsScanned ==
    "gather" \in steps =>
        referenced_files =
            { v \in { workspace[i].v : i \in { j \in 1..Len(workspace) :
                                                  workspace[j].t = "str" } } :
                StartsWith(v, bucket_prefix) }
                \cup UNION { PrefixedScalars(e.attributes) : e \in scanned }

\* C17: when the bucket has been listed, and so when the candidates are
\* selected, every entity type has been queried to its last page and its
\* entities scanned, and the flag of every inventory entry says whether its
\* path is in the ReferencedSet; and from the listing on the ReferencedSet
\* does not change.
C17_ReferencesCompleteFirst ==
    /\ [](("inventory" \in steps \/ Selected) =>
            /\ "gather" \in steps
            /\ entity_types = <<>> /\ all_entities = <<>>
            /\ \A e \in Inventory :
                  e.is_in_data_table <=> e.file_path \in referenced_files)
    /\ [][(pc \notin {"get_workspace", "list_entity_types", "entity_query"}) =>
            (referenced_files' = referenced_files /\ scanned' = scanned)]_vars

\* The candidates have been selected from an inventory holding an object
\* that only an entity refers to.
C17_Witness ==
    /\ Selected
    /\ scanned # {}
    /\ \E e \in Inventory :
          /\ e.is_in_data_table
          /\ e.file_path \notin PrefixedScalars(workspace)
    /\ FinalCandidates # {}

\* ------------------------------------------------------------------------
\* Properties of the order of a run
\* ------------------------------------------------------------------------

\* The stages in their order: no stage is completed before the one it
\* follows, the manifest comes after the selection and, when asked for,
\* before the gate.
C18_StageOrder ==
    /\ "inventory" \in steps => "gather" \in steps
    /\ "eligible" \in steps => "inventory" \in steps
    /\ Selected => "eligible" \in steps
    /\ "manifest" \in steps => (Selected /\ args.make_manifest)
    /\ "gate" \in steps =>
          (Selected /\ (args.make_manifest => "manifest" \in steps))
    /\ "delete" \in steps => "gate" \in steps

\* C18: the stages of a run are completed in the order gathering, listing,
\* eligibility, selection, manifest, gate, deletion; and a run with
\* --make-manifest that returns from mop (every call of the gathering and
\* of the listing succeeded) has written the manifest once, whatever the
\* number of candidates and whether it is a dry run or was declined.
C18_ManifestInEveryRun ==
    /\ C18_StageOrder
    /\ (args.make_manifest /\ Returned) => Len(manifest) = 1

\* ------------------------------------------------------------------------
\* Properties of the deletion
\* ------------------------------------------------------------------------

\* The lines of the standard input of the n-th gsutil run, in their order.
DeleteLineSeq(n) == Split(gsrm_input[n], "\n", Len(gsrm_input[n]))

\* C19: gsutil rm is run at most once in a run, and exactly once when the
\* run has gone through the deletion; its standard input then has one line
\* for each path of the final candidate set and no other line, no path
\* twice.
C19_DeleteInput ==
    /\ Len(gsrm_input) <= 1
    /\ "delete" \in steps =>
          /\ Len(gsrm_input) = 1
          /\ Range(DeleteLineSeq(1)) = FinalCandidates
          /\ Len(DeleteLineSeq(1)) = Cardinality(FinalCandidates)
    /\ pc = "delete" => (gsrm_input = <<>> /\ FinalCandidates # {})

\* gsutil rm has read two lines, the two paths of the final candidate set.
C19_Witness ==
    /\ "delete" \in steps
    /\ Cardinality(FinalCandidates) = 2
    /\ Len(gsrm_input) = 1
    /\ Len(DeleteLineSeq(1)) = 2
    /\ Range(DeleteLineSeq(1)) = FinalCandidates

\* C20: once gsutil rm has been run the run has returned with exit code 0,
\* whichever output gsutil gave; gsutil was run once, and nothing more is
\* done: no step of the run is possible after it.
C20_DeleteReturnsZero ==
    "delete" \in steps =>
        /\ pc = "done"
        /\ exit_code = 0
        /\ Len(gsrm_input) = 1
        /\ Len(gsrm_output) = 1
        /\ ~ ENABLED Next

\* gsutil removed none of the two candidates and the run returned 0.
C20_Witness ==
    /\ "delete" \in steps
    /\ gsrm_output = << "removed none" >>
    /\ Cardinality(FinalCandidates) = 2
    /\ pc = "done"
    /\ exit_code = 0

\* ------------------------------------------------------------------------
\* Properties of the manifest
\* ------------------------------------------------------------------------

\* The paths a run with these flags, this inventory, these references and
\* these submissions selects; --make-manifest is not among what it reads.
SelectionOf(a, dict, referenced, ids) ==
    { e.file_path : e \in
        { d \in Range(dict) :
            /\ d.submission_id \in ids
            /\ IF a.keep_one
               THEN d \notin Range(choose_keepers(
                       SelectSeq(dict, LAMBDA g : g.unique_key = d.unique_key)))
               ELSE d.file_path \notin referenced
            /\ can_delete(d.file_path, a.include, a.exclude) } }

\* C21: a manifest written has one row for each entry of the inventory,
\* eligible or not, and the row's to_delete is true exactly for the paths of
\* the final candidate set; and what a run that returns has sent to gsutil
\* rm, and its exit code, are determined by the inventory, the references,
\* the submissions, the answer and the flags other than --make-manifest.
C21_ManifestRowsAndFrame ==
    /\ Len(manifest) <= 1
    /\ manifest # <<>> =>
          /\ Len(manifest[1]) = Cardinality(Inventory)
          /\ { r.file_path : r \in Range(manifest[1]) } = InventoryPaths
          /\ \A r \in Range(manifest[1]) :
                r.to_delete <=> r.file_path \in FinalCandidates
    /\ (Returned /\ Selected) =>
          /\ exit_code = 0
          /\ FinalCandidates =
                SelectionOf(args, bucket_dict, referenced_files, submission_ids)
          /\ "delete" \in steps <=>
                /\ FinalCandidates # {}
                /\ ~ args.dry_run
                /\ args.yes \/ answer \in {"y", "yes", "Y", "Yes"}
          /\ "delete" \in steps => DeleteLines(1) = FinalCandidates
          /\ "delete" \notin steps => gsrm_input = <<>>

\* A manifest of two rows, one of a file to delete and one of a file that
\* is not eligible, has been written and the file has been deleted.
C21_Witness ==
    /\ "delete" \in steps
    /\ Len(manifest) = 1
    /\ Len(manifest[1]) = 2
    /\ \E r \in Range(manifest[1]), q \in Range(manifest[1]) :
          /\ r.to_delete
          /\ ~ q.to_delete
          /\ q.file_path \notin eligible_bucket_files
    /\ Cardinality(FinalCandidates) = 1

\* ------------------------------------------------------------------------
\* Properties of the inventory
\* ------------------------------------------------------------------------

\* The object is stored directly at the bucket root: its name has no '/'.
AtBucketRoot(e) == e.file_path = bucket_prefix \o <<"/">> \o e.file_name

\* C22: the submission_id of an inventory entry is the path segment right
\* below the bucket name; an object stored directly at the bucket root has
\* no such segment, its submission_id is not taken from its own name, and it
\* is never eligible, whatever the submission listing returned.
C22_RootObjectHasNoSubmissionId ==
    \A e \in Inventory :
        IF AtBucketRoot(e)
        THEN /\ e.submission_id # e.file_name
             /\ e.file_path \notin eligible_bucket_files
        ELSE StartsWith(e.file_path,
                        bucket_prefix \o <<"/">> \o e.submission_id \o <<"/">>)

\* The part of C22 that the code keeps: below the root the submission_id is
\* the first directory of the object's name.
C22_SubmissionIdBelowRoot ==
    \A e \in Inventory :
        ~ AtBucketRoot(e) =>
            StartsWith(e.file_path,
                       bucket_prefix \o <<"/">> \o e.submission_id \o <<"/">>)

\* ------------------------------------------------------------------------
\* The unique key on its own
\* ------------------------------------------------------------------------

\* The largest number of objects in the listing given to list_bucket_files.
MaxKeyed == 2

NameXDotM == <<"s", "/", "x", ".", "m">>

\* Objects of two file names (one of them in two directories), two hashes,
\* one a prefix of the other, and two sizes, one's digits a suffix of the
\* other's.  An md5_hash is base64 text: it holds no dot.
KeyBlobs ==
    { Blob(n, h, z, 1) : n \in {NameX, NameOtherX, NameXDotM},
                         h \in { <<"m">>, <<"m", "1">> },
                         z \in {5, 15} }

KeyListings ==
    { q \in SeqsUpTo(KeyBlobs, MaxKeyed) :
        \A i \in 1..Len(q), j \in 1..Len(q) : q[i].name = q[j].name => i = j }

KeyInit ==
    /\ args \in { a \in Args : ~ a.keep_one /\ a.dry_run /\ ~ a.yes
                               /\ ~ a.verbose /\ ~ a.make_manifest
                               /\ a.include = <<>> /\ a.exclude = <<>> }
    /\ workspace = <<>>
    /\ scanned = {}
    /\ gsrm_output = <<>>
    /\ pc = "list_bucket_files"
    /\ steps = {}
    /\ failure = "none"
    /\ referenced_files \in SUBSET { Uri(BucketName, NameX),
                                     Uri(BucketName, NameXDotM) }
    /\ entity_types = <<>>
    /\ page = 1
    /\ total_pages = 0
    /\ all_entities = <<>>
    /\ bucket_dict = <<>>
    /\ submission_ids = {}
    /\ all_bucket_files = {}
    /\ eligible_bucket_files = {}
    /\ files_to_keep = {}
    /\ potential_deletable_files = {}
    /\ deletable_files = <<>>
    /\ summary = <<>>
    /\ manifest = <<>>
    /\ prompts = <<>>
    /\ answer = ""
    /\ gsrm_input = <<>>
    /\ exit_code = -1

\* list_bucket_files(bucket, referenced_files, verbose) on a listing.
ListKeyedBlobs ==
    /\ pc = "list_bucket_files"
    /\ \E blobs \in KeyListings :
          bucket_dict' = BuildBucketDict(BucketName, blobs, referenced_files, <<>>)
    /\ pc' = "listed"
    /\ UNCHANGED << args, scanned, workspace, gsrm_output, steps, failure,
                    referenced_files, entity_types, page, total_pages,
                    all_entities, submission_ids, all_bucket_files,
                    eligible_bucket_files, files_to_keep,
                    potential_deletable_files, deletable_files, summary,
                    manifest, prompts, answer, gsrm_input, exit_code >>

KeySpec == KeyInit /\ [][ListKeyedBlobs]_vars

\* C23: two entries of the inventory have the same unique key exactly if
\* they have the same file name, the same hash and the same size, whatever
\* their paths.
C23_KeyIffTriple ==
    \A e \in Inventory, d \in Inventory :
        e.unique_key = d.unique_key
            <=> (e.file_name = d.file_name /\ e.md5 = d.md5 /\ e.size = d.size)

\* Two objects in different directories with the same name, hash and size,
\* and so with the same key.
C23_Witness ==
    /\ pc = "listed"
    /\ Len(bucket_dict) = 2
    /\ bucket_dict[1].file_path # bucket_dict[2].file_path
    /\ bucket_dict[1].file_name = bucket_dict[2].file_name
    /\ bucket_dict[1].md5 = bucket_dict[2].md5
    /\ bucket_dict[1].size = bucket_dict[2].size
    /\ bucket_dict[1].unique_key = bucket_dict[2].unique_key

\* ------------------------------------------------------------------------
\* Properties of the report
\* ------------------------------------------------------------------------

\* The sum of the sizes of a set of inventory entries.
RECURSIVE SizeSum(_)
SizeSum(entries) ==
    IF entries = {} THEN 0
    ELSE LET e == CHOOSE x \in entries : TRUE
         IN  e.size + SizeSum(entries \ {e})

CandidateEntries == { e \in Inventory : e.file_path \in FinalCandidates }

\* C24: every summary printed and every confirmation message shown carries
\* the number of paths of the final candidate set and the human-readable sum
\* of the sizes of exactly the entries of that set.
C24_ReportedCountAndSize ==
    \A report \in Range(summary) \cup Range(prompts) :
        /\ report.count = Cardinality(FinalCandidates)
        /\ report.size = human_readable_size(SizeSum(CandidateEntries))

\* A verbose run has printed the summary and shown the message for one
\* candidate of 5 bytes out of an inventory of two objects of 5 bytes.
C24_Witness ==
    /\ Len(summary) = 1
    /\ Len(prompts) = 1
    /\ Cardinality(Inventory) = 2
    /\ Cardinality(FinalCandidates) = 1
    /\ \A e \in Inventory : e.size = 5
    /\ summary[1].count = 1
    /\ summary[1].size = human_readable_size(5)
    /\ prompts[1] = summary[1]

\* ------------------------------------------------------------------------
\* The incremental resolver against the one-shot resolver
\* ------------------------------------------------------------------------

\* No two copies of one file in the inventory have the same update time.
DistinctUpdateTimes ==
    \A e \in Inventory, d \in Inventory :
        (e.unique_key = d.unique_key /\ e.time_updated = d.time_updated) => e = d

\* C25: for every inventory in every listing order, what get_files_to_keep
\* keeps of a duplicate group is what choose_keepers returns when applied
\* once to the whole group; and when the update times within every group are
\* pairwise distinct, get_files_to_keep keeps the same paths for every
\* order of the listing.
C25_IncrementalEqualsOneShot ==
    pc = "resolved" =>
        /\ \A e \in Inventory :
              KeptOf(e) = Range(choose_keepers(Group(e.unique_key)))
        /\ DistinctUpdateTimes =>
              \A q \in Orderings(Inventory) : get_files_to_keep(q) = files_to_keep

\* Three unreferenced copies with three different update times, the newest
\* listed first: it is the one kept.
C25_Witness ==
    /\ pc = "resolved"
    /\ Len(bucket_dict) = 3
    /\ Cardinality(GroupOf(bucket_dict[1])) = 3
    /\ ReferencedOf(bucket_dict[1]) = {}
    /\ DistinctUpdateTimes
    /\ bucket_dict[1].time_updated > bucket_dict[2].time_updated
    /\ bucket_dict[2].time_updated > bucket_dict[3].time_updated
    /\ files_to_keep = {bucket_dict[1].file_path}

\* ------------------------------------------------------------------------
\* Properties of keep-one mode
\* ------------------------------------------------------------------------

\* C26: in keep-one mode every duplicate group of the inventory has a member
\* that is neither in the final candidate set nor handed to gsutil rm.
C26_OneCopySurvives ==
    (Selected /\ args.keep_one) =>
        \A e \in Inventory :
            \E d \in GroupOf(e) :
                /\ d.file_path \notin FinalCandidates
                /\ \A n \in 1..Len(gsrm_input) : d.file_path \notin DeleteLines(n)

\* A keep-one run has deleted one of two unreferenced, eligible copies of a
\* file and left the other.
C26_Witness ==
    /\ args.keep_one
    /\ "delete" \in steps
    /\ Len(bucket_dict) = 2
    /\ GroupOf(bucket_dict[1]) = Inventory
    /\ referenced_files = {}
    /\ InventoryPaths = eligible_bucket_files
    /\ Cardinality(DeleteLines(1)) = 1

\* C27: in keep-one mode an object that is the only one of the inventory
\* with its unique key is not in the final candidate set, referenced or not;
\* every path of the final candidate set has another copy in the inventory;
\* and the final candidate set is within the set plain mode selects from the
\* same eligible files, references and globs.
C27_KeepOneDeletesDuplicatesOnly ==
    (Selected /\ args.keep_one) =>
        /\ \A e \in Inventory :
              GroupOf(e) = {e} => e.file_path \notin FinalCandidates
        /\ \A f \in FinalCandidates :
              \E e \in Inventory, d \in Inventory :
                  e.file_path = f /\ d # e /\ d.unique_key = e.unique_key
        /\ FinalCandidates \subseteq
              { f \in eligible_bucket_files :
                  /\ f \notin referenced_files
                  /\ can_delete(f, args.include, args.exclude) }

\* A keep-one run has passed over an unreferenced, eligible object that the
\* safety filter lets go and that has no copy in the inventory.
C27_Witness ==
    /\ Selected
    /\ args.keep_one
    /\ \E e \in Inventory :
          /\ GroupOf(e) = {e}
          /\ e.file_path \in eligible_bucket_files
          /\ e.file_path \notin referenced_files
          /\ can_delete(e.file_path, args.include, args.exclude)
          /\ e.file_path \notin FinalCandidates

\* ------------------------------------------------------------------------
\* mop run again after its candidates were deleted
\* ------------------------------------------------------------------------

\* The eligible files of an inventory under a submission listing.
EligibleFiles(dict, ids) ==
    { dict[i].file_path : i \in { j \in 1..Len(dict) :
                                    dict[j].submission_id \in ids } }

\* The references the workspace data can hold.
ReferenceSets ==
    SUBSET { Uri(BucketName, n) : n \in {NameX, NameOldX, NameOtherX} }

\* A first run that is no dry run, after its gathering, its listing and its
\* submission listing have succeeded.
RerunInit ==
    /\ args \in { a \in Args : ~ a.dry_run /\ ~ a.verbose /\ ~ a.make_manifest }
    /\ workspace = <<>>
    /\ scanned = {}
    /\ gsrm_output = <<>>
    /\ pc = "select"
    /\ steps = {"gather", "inventory", "eligible"}
    /\ failure = "none"
    /\ referenced_files \in ReferenceSets
    /\ entity_types = <<>>
    /\ page = 1
    /\ total_pages = 0
    /\ all_entities = <<>>
    /\ \E blobs \in Listings :
           bucket_dict = BuildBucketDict(BucketName, blobs, referenced_files, <<>>)
    /\ submission_ids \in SubmissionIdSets
    /\ all_bucket_files = { bucket_dict[i].file_path : i \in 1..Len(bucket_dict) }
    /\ eligible_bucket_files = EligibleFiles(bucket_dict, submission_ids)
    /\ files_to_keep = {}
    /\ potential_deletable_files = {}
    /\ deletable_files = <<>>
    /\ summary = <<>>
    /\ manifest = <<>>
    /\ prompts = <<>>
    /\ answer = ""
    /\ gsrm_input = <<>>
    /\ exit_code = -1

\* gsutil has removed every candidate of the first run, and mop is started
\* again with the same flags: the workspace data and the submission listing
\* are as before, and the bucket lists what is left, in the order it had.
\* The second run is taken up to its set differences.
SecondRun ==
    /\ pc = "done"
    /\ "delete" \in steps
    /\ "rerun" \notin steps
    /\ LET left == SelectSeq(bucket_dict,
                             LAMBDA e : e.file_path \notin Range(deletable_files))
       IN  /\ bucket_dict' = left
           /\ all_bucket_files' = { left[i].file_path : i \in 1..Len(left) }
           /\ eligible_bucket_files' = EligibleFiles(left, submission_ids)
    /\ steps' = {"rerun", "gather", "inventory", "eligible"}
    /\ files_to_keep' = {}
    /\ potential_deletable_files' = {}
    /\ deletable_files' = <<>>
    /\ answer' = ""
    /\ exit_code' = -1
    /\ pc' = "select"
    /\ UNCHANGED << args, scanned, workspace, gsrm_output, failure,
                    referenced_files, entity_types, page, total_pages,
                    all_entities, submission_ids, summary, manifest, prompts,
                    gsrm_input >>

RerunNext ==
    \/ SelectCandidates
    \/ Gate
    \/ Confirm
    \/ Delete
    \/ SecondRun

RerunSpec == RerunInit /\ [][RerunNext]_vars

\* C28: the second run selects no candidate and returns 0 at once: it shows
\* no prompt and runs gsutil rm no second time, in plain mode and in
\* keep-one mode.
C28_SecondRunSelectsNothing ==
    "rerun" \in steps =>
        /\ pc \in {"select", "done"}
        /\ "gate" \notin steps /\ "delete" \notin steps
        /\ Len(gsrm_input) = 1
        /\ Len(prompts) = IF args.yes THEN 0 ELSE 1
        /\ Selected => (FinalCandidates = {} /\ pc = "done" /\ exit_code = 0)

\* The second keep-one run has passed over the unreferenced, eligible copy
\* that the first run kept when it deleted another.
C28_Witness ==
    /\ "rerun" \in steps
    /\ Selected
    /\ args.keep_one
    /\ Len(gsrm_input) = 1
    /\ \E e \in Inventory :
          /\ e.file_path \in eligible_bucket_files
          /\ ~ e.is_in_data_table
          /\ can_delete(e.file_path, args.include, args.exclude)
    /\ FinalCandidates = {}

\* The second plain run has found nothing to delete in a bucket that still
\* holds a referenced file.
C28_WitnessPlain ==
    /\ "rerun" \in steps
    /\ Selected
    /\ ~ args.keep_one
    /\ \E e \in Inventory : e.file_path \in eligible_bucket_files
    /\ FinalCandidates = {}

\* ------------------------------------------------------------------------
\* Properties of the submission listing and of the prompt
\* ------------------------------------------------------------------------

\* C29: when the submission listing fails the run is aborted with no
\* eligible set computed, no candidate selected, no prompt shown and gsutil
\* rm not run; and an eligible set, once computed, is the set of the
\* inventory paths whose submission_id is in the listing that was returned.
C29_SubmissionListingFailure ==
    /\ failure = "list_submissions" =>
          /\ pc = "aborted"
          /\ "inventory" \in steps
          /\ "eligible" \notin steps /\ ~ Selected
          /\ submission_ids = {} /\ eligible_bucket_files = {}
          /\ deletable_files = <<>>
          /\ prompts = <<>> /\ gsrm_input = <<>>
    /\ "eligible" \in steps =>
          /\ failure = "none"
          /\ eligible_bucket_files =
                { e.file_path : e \in
                    { d \in Inventory : d.submission_id \in submission_ids } }

\* The submission listing has failed after a listing of the bucket that
\* holds an unreferenced object.
C29_Witness ==
    /\ failure = "list_submissions"
    /\ pc = "aborted"
    /\ \E e \in Inventory : ~ e.is_in_data_table
    /\ gsrm_input = <<>>

\* C30: the prompt is shown at most once in a run; a run that has come to
\* an answer, to the deletion or to its end after the selection has shown it
\* exactly if the final candidate set is not empty, the run is no dry run
\* and --yes is not set; a run whose final candidate set is empty returns 0
\* with no prompt shown and gsutil rm not run, and gsutil rm is never given
\* an empty input.
C30_PromptOnceIffNeeded ==
    /\ Len(prompts) <= 1
    /\ (Selected /\ pc \in {"confirm", "delete", "done"}) =>
          (Len(prompts) = 1 <=>
              (FinalCandidates # {} /\ ~ args.dry_run /\ ~ args.yes))
    /\ prompts # <<>> => Selected
    /\ (Selected /\ FinalCandidates = {}) =>
          /\ pc = "done" /\ exit_code = 0
          /\ prompts = <<>> /\ gsrm_input = <<>>
    /\ \A n \in 1..Len(gsrm_input) : gsrm_input[n] # <<>>

\* A run without --yes has shown the prompt once, was declined and has
\* returned 0 without running gsutil rm.
C30_Witness ==
    /\ Len(prompts) = 1
    /\ ~ args.yes /\ ~ args.dry_run
    /\ FinalCandidates # {}
    /\ answer = ""
    /\ pc = "done" /\ exit_code = 0
    /\ gsrm_input = <<>>

====
